---- MODULE Spec2Model ----
(***************************************************************************)
(* Model of the two IFC export entry points of the repository:             *)
(*   server/revit-ifc/export_ifc.py      (pyRevit, interactive host)       *)
(*   server/revit-ifc/rbp_export_ifc.py  (RevitBatchProcessor, batch host) *)
(*                                                                         *)
(* Text is a sequence of atoms.  The characters the scripts and os.path    *)
(* inspect ("-", ".", "/", "\\") are atoms of their own; every other atom  *)
(* is a maximal run of ordinary characters.  os.path is ntpath (Revit runs *)
(* on Windows) restricted to paths without a drive or UNC prefix.          *)
(***************************************************************************)
EXTENDS Integers, Sequences, FiniteSets, TLC

VARIABLES
    docPath,    \* doc.PathName of the active document (<<>> when unsaved)
    argv,       \* sys.argv[1:] of the pyRevit invocation
    fs,         \* the params.json on disk: NoFile or [dir, content]
    run         \* run[e]: the module-level names of entry point e

vars == <<docPath, argv, fs, run>>

Entries == {"pyrevit", "rbp"}

----------------------------------------------------------------------------
(* Python values *)

None == [t |-> "none"]

Str(s) == [t |-> "str", s |-> s]

Bool(b) == [t |-> "bool", b |-> b]

Num == [t |-> "num"]

List == [t |-> "list"]

Dict(d) == [t |-> "dict", d |-> d]

EmptyDict == Dict([k \in {} |-> None])

IsStr(v) == v.t = "str"

\* bool(v): None, "", False and [] are falsy
Truthy(v) ==
    CASE v.t = "none" -> FALSE
      [] v.t = "str"  -> v.s # <<>>
      [] v.t = "bool" -> v.b
      [] v.t = "list" -> FALSE
      [] v.t = "dict" -> DOMAIN v.d # {}
      [] OTHER        -> TRUE

\* d.get(key, default) on a dict d
Get(d, key, default) == IF key \in DOMAIN d THEN d[key] ELSE default

----------------------------------------------------------------------------
(* os.path (ntpath, no drive) *)

Seps == {"\\", "/"}

ExtSep == "."

\* index of the last atom of p that is in S, 0 when there is none
LastIn(p, S) ==
    LET I == {i \in 1..Len(p) : p[i] \in S}
    IN  IF I = {} THEN 0 ELSE CHOOSE i \in I : \A j \in I : j <= i

RECURSIVE RStripSeps(_)
RStripSeps(p) ==
    IF p # <<>> /\ p[Len(p)] \in Seps
    THEN RStripSeps(SubSeq(p, 1, Len(p) - 1))
    ELSE p

\* ntpath.split(p) = (head, tail)
Split(p) ==
    LET i     == LastIn(p, Seps)
        head  == SubSeq(p, 1, i)
        tail  == SubSeq(p, i + 1, Len(p))
        head2 == RStripSeps(head)
    IN  <<IF head2 = <<>> THEN head ELSE head2, tail>>

DirName(p) == Split(p)[1]

BaseName(p) == Split(p)[2]

\* genericpath._splitext: the extension starts at the last dot after the
\* last separator, unless only dots precede it in the file name
SplitExt(p) ==
    LET sepIndex == LastIn(p, Seps)
        dotIndex == LastIn(p, {ExtSep})
    IN  IF /\ dotIndex > sepIndex
           /\ \E k \in (sepIndex + 1)..(dotIndex - 1) : p[k] # ExtSep
        THEN <<SubSeq(p, 1, dotIndex - 1), SubSeq(p, dotIndex, Len(p))>>
        ELSE <<p, <<>>>>

\* ntpath.join(a, b)
Join(a, b) ==
    IF b # <<>> /\ b[1] \in Seps THEN b
    ELSE IF a # <<>> /\ a[Len(a)] \notin Seps THEN a \o <<"\\">> \o b
    ELSE a \o b

ParamsFile == <<"params", ".", "json">>

IfcExt == <<".", "ifc">>

----------------------------------------------------------------------------
(* Inputs *)

MaxArgs == 2

MaxKeys == 2

MaxKeysBoth == 1

DocPaths ==
    { <<>>,
      <<"design", ".", "rvt">>,
      <<"proj", "\\", "design", ".", "rvt">>,
      <<"proj", "/", "plan">> }

ArgTokens ==
    { <<"-", "-", "revit=2023">>,
      <<"proj", "\\", "model", ".", "rvt">>,
      <<"out", "\\", "result", ".", "ifc">> }

Argvs == UNION {[1..n -> ArgTokens] : n \in 0..MaxArgs}

SidecarDirs == { <<>>, <<"proj">> }

Keys ==
    {"ifcVersion", "wallSplitting", "exportBaseQuantities",
     "outputDir", "outputName", "SitePlacement"}

\* the values each key takes: for the two flags the value that differs from
\* the script's default
KeyValues(k) ==
    CASE k = "ifcVersion" ->
             {Str(<<"IFC2x3">>), Str(<<"IFC4">>), Str(<<"IFC5">>), Num}
      [] k = "wallSplitting"        -> {Bool(TRUE)}
      [] k = "exportBaseQuantities" -> {Bool(FALSE)}
      [] k = "outputDir"            -> {Str(<<"exports">>), Num}
      [] k = "outputName"           -> {Str(<<"out", ".", "ifc">>), Num}
      [] OTHER                      -> {Str(<<"1">>)}

AllValues == UNION {KeyValues(k) : k \in Keys}

\* JSON objects with at most n keys
Objects(n) ==
    UNION { {d \in [K -> AllValues] : \A k \in K : d[k] \in KeyValues(k)} :
            K \in {S \in SUBSET Keys : Cardinality(S) <= n} }

\* what params.json holds: unparsable text, a non-object, or an object
Malformed == [t |-> "malformed"]

Contents(n) == {Malformed, List} \cup {Dict(d) : d \in Objects(n)}

NoFile == [dir |-> <<>>, content |-> [t |-> "absent"]]

Files(n) == {NoFile} \cup [dir : SidecarDirs, content : Contents(n)]

Exists(path) == fs # NoFile /\ path = Join(fs.dir, ParamsFile)

----------------------------------------------------------------------------
(* Host (Revit API) values *)

\* IFC_VERSIONS: version key -> IFCVersion member
IFC_VERSIONS == [k \in {<<"IFC2x3">>, <<"IFC4">>} |->
                    IF k = <<"IFC2x3">> THEN "IFC2x3CV2" ELSE "IFC4"]

\* a lookup whose fallback is the legacy version
ResolveVersionLegacyDefault(version_key) ==
    IF IsStr(version_key) /\ version_key.s \in DOMAIN IFC_VERSIONS
    THEN IFC_VERSIONS[version_key.s]
    ELSE "IFC2x3CV2"

\* IFC_VERSIONS.get(version_key, IFCVersion.IFC4)
ResolveVersion(version_key) ==
    IF IsStr(version_key) /\ version_key.s \in DOMAIN IFC_VERSIONS
    THEN IFC_VERSIONS[version_key.s]
    ELSE "IFC4"

\* IFCExportOptions()
NewOptions ==
    [FileVersion |-> "Default", WallAndColumnSplitting |-> Bool(FALSE),
     ExportBaseQuantities |-> Bool(FALSE), added |-> <<>>]

\* options.AddOption(name, value)
AddOption(options, name, value) ==
    [options EXCEPT !.added = Append(@, <<name, value>>)]

\* an options builder that lets a sidecar key override a fixed option
BuildOptionsLeaky(ifc_version, d) ==
    LET o1 == [NewOptions EXCEPT
                 !.FileVersion = ifc_version,
                 !.WallAndColumnSplitting = Get(d, "wallSplitting", Bool(FALSE)),
                 !.ExportBaseQuantities = Get(d, "exportBaseQuantities", Bool(TRUE))]
        o2 == AddOption(o1, "ExportInternalRevitPropertySets", "true")
        o3 == AddOption(o2, "ExportIFCCommonPropertySets", "true")
    IN  AddOption(o3, "SitePlacement",
                  IF "SitePlacement" \in DOMAIN d THEN "1" ELSE "0")

\* the options object after lines 83-91
BuildOptions(ifc_version, d) ==
    LET o1 == [NewOptions EXCEPT
                 !.FileVersion = ifc_version,
                 !.WallAndColumnSplitting = Get(d, "wallSplitting", Bool(FALSE)),
                 !.ExportBaseQuantities = Get(d, "exportBaseQuantities", Bool(TRUE))]
        o2 == AddOption(o1, "ExportInternalRevitPropertySets", "true")
        o3 == AddOption(o2, "ExportIFCCommonPropertySets", "true")
    IN  AddOption(o3, "SitePlacement", "0")

\* messages of the exceptions the host raises
StartFault == <<"transaction cannot start">>

ExportFault == <<"IFC export fault">>

RollBackFault == <<"transaction cannot roll back">>

ParseFault == <<"No JSON object could be decoded">>

\* a transaction end that keeps the changes
RollBackCommits(status) == IF status = "Started" THEN "Committed" ELSE status

\* Transaction.RollBack() on a started transaction
RollBack(status) == IF status = "Started" THEN "RolledBack" ELSE status

\* leaving the with block disposes the transaction: one still started is
\* rolled back
Dispose(status) == IF status = "Started" THEN "RolledBack" ELSE status

\* the persisted document after the transaction ended with `status`
Persist(status, persisted, working) ==
    IF status = "Committed" THEN working ELSE persisted

----------------------------------------------------------------------------
(* Status lines *)

Line(tag, text) == [tag |-> tag, text |-> text]

FailedReason == <<"Revit Document.Export() returned False">>

WarnLine(msg) == Line("WARN", <<" Could not read params.json: ">> \o msg)

----------------------------------------------------------------------------
(* State *)

NewRun ==
    [pc |-> "args", input_path |-> None, output_path |-> None,
     params |-> None, reads |-> <<>>, version_key |-> None,
     ifc_version |-> "unset", options |-> NewOptions,
     output_dir |-> None, output_name |-> None,
     txn |-> "NotCreated", txnLog |-> <<>>, exported |-> <<>>,
     result |-> None, caught |-> None,
     persisted |-> "original", out |-> <<>>, exc |-> "none"]

Off == [NewRun EXCEPT !.pc = "off"]

\* one entry point is run: each host process evaluates one script
Init ==
    /\ docPath \in DocPaths
    /\ fs \in Files(MaxKeys)
    /\ \E e \in Entries :
         /\ run = [x \in Entries |-> IF x = e THEN NewRun ELSE Off]
         /\ argv \in IF e = "pyrevit" THEN Argvs ELSE {<<>>}

IsFlag(arg) == Len(arg) >= 2 /\ arg[1] = "-" /\ arg[2] = "-"

\* both entry points are run on the same document, sidecar and flags, the
\* interactive one without positional arguments
InitBoth ==
    /\ docPath \in DocPaths
    /\ fs \in Files(MaxKeysBoth)
    /\ argv \in {a \in Argvs : \A i \in 1..Len(a) : IsFlag(a[i])}
    /\ run = [x \in Entries |-> NewRun]

Set(e, r) == run' = [run EXCEPT ![e] = r] /\ UNCHANGED <<docPath, argv, fs>>

Crash(r, exc) == [r EXCEPT !.pc = "crashed", !.exc = exc]

----------------------------------------------------------------------------
(* export_ifc.py lines 38-51 *)

\* the for loop over script_args: <<input_path, output_path>> after it
RECURSIVE ScanArgs(_, _, _)
ScanArgs(args, input_path, output_path) ==
    IF args = <<>> THEN <<input_path, output_path>>
    ELSE LET arg == Head(args) IN
         IF IsFlag(arg) THEN ScanArgs(Tail(args), input_path, output_path)
         ELSE IF input_path = None
              THEN ScanArgs(Tail(args), Str(arg), output_path)
         ELSE IF output_path = None
              THEN ScanArgs(Tail(args), input_path, Str(arg))
         ELSE ScanArgs(Tail(args), input_path, output_path)

ParseArgs(e) ==
    /\ e = "pyrevit"
    /\ run[e].pc = "args"
    /\ LET scanned == ScanArgs(argv, None, None)
           inp     == IF Truthy(scanned[1]) THEN scanned[1] ELSE Str(docPath)
       IN  Set(e, [run[e] EXCEPT !.pc = "params", !.input_path = inp,
                                 !.output_path = scanned[2]])

(* rbp_export_ifc.py line 37 *)
DocInputPath(e) ==
    /\ e = "rbp"
    /\ run[e].pc = "args"
    /\ Set(e, [run[e] EXCEPT !.pc = "params", !.input_path = Str(docPath)])

----------------------------------------------------------------------------
(* export_ifc.py lines 57-65, rbp_export_ifc.py lines 38-46 *)

\* export_ifc.py looks for the sidecar only when input_path is non-empty
LooksForSidecar(e, input_path) == e = "rbp" \/ Truthy(input_path)

ParamsPath(input_path) == Join(DirName(input_path.s), ParamsFile)

\* a parse failure swallowed without a warning
OnParseFailureSilent(r, msg) == [r EXCEPT !.params = EmptyDict]

\* the except branch of the sidecar read
OnParseFailure(r, msg) ==
    [r EXCEPT !.params = EmptyDict, !.out = Append(@, WarnLine(msg))]

ReadParams(e) ==
    /\ run[e].pc = "params"
    /\ LET r    == [run[e] EXCEPT !.pc = "version", !.params = EmptyDict]
           path == ParamsPath(r.input_path)
       IN  IF LooksForSidecar(e, r.input_path) /\ Exists(path)
           THEN LET opened == [r EXCEPT !.reads = Append(@, path)]
                IN  IF fs.content = Malformed
                    THEN Set(e, OnParseFailure(opened, ParseFault))
                    ELSE Set(e, [opened EXCEPT !.params = fs.content])
           ELSE Set(e, r)

----------------------------------------------------------------------------
(* export_ifc.py lines 71-77 *)

VersionMapping(e) ==
    /\ run[e].pc = "version"
    /\ LET r == run[e] IN
       IF r.params.t # "dict"
       THEN Set(e, Crash(r, "AttributeError"))
       ELSE LET key == Get(r.params.d, "ifcVersion", Str(<<"IFC4">>))
            IN  Set(e, [r EXCEPT !.pc = "options", !.version_key = key,
                                 !.ifc_version = ResolveVersion(key)])

(* export_ifc.py lines 83-91 *)
ExportOptions(e) ==
    /\ run[e].pc = "options"
    /\ Set(e, [run[e] EXCEPT
                 !.pc = "paths",
                 !.options = BuildOptions(run[e].ifc_version, run[e].params.d)])

----------------------------------------------------------------------------
(* export_ifc.py lines 97-105, rbp_export_ifc.py lines 76-80 *)

DefaultDir(input_path) == Str(DirName(input_path.s))

DefaultName(input_path) ==
    Str(SplitExt(BaseName(input_path.s))[1] \o IfcExt)

\* a resolution in which the sidecar beats the explicit output path
ResolveOutputSidecarFirst(input_path, d, output_path) ==
    LET explicit == Truthy(output_path)
    IN  <<Get(d, "outputDir",
              IF explicit THEN Str(DirName(output_path.s))
              ELSE DefaultDir(input_path)),
          Get(d, "outputName",
              IF explicit THEN Str(BaseName(output_path.s))
              ELSE DefaultName(input_path))>>

\* <<output_dir, output_name>>
ResolveOutput(input_path, d, output_path) ==
    IF Truthy(output_path)
    THEN <<Str(DirName(output_path.s)), Str(BaseName(output_path.s))>>
    ELSE <<Get(d, "outputDir", DefaultDir(input_path)),
           Get(d, "outputName", DefaultName(input_path))>>

OutputPaths(e) ==
    /\ run[e].pc = "paths"
    /\ LET r   == run[e]
           res == ResolveOutput(r.input_path, r.params.d, r.output_path)
       IN  Set(e, [r EXCEPT !.pc = "header", !.output_dir = res[1],
                            !.output_name = res[2]])

----------------------------------------------------------------------------
(* export_ifc.py lines 111-115, rbp_export_ifc.py lines 86-90 *)

\* the operands of the four "KEY:" + value concatenations, in order
HeaderFields(r) ==
    << <<"INPUT_PATH", IF Truthy(r.input_path) THEN r.input_path
                       ELSE Str(docPath)>>,
       <<"OUTPUT_DIR", r.output_dir>>,
       <<"OUTPUT_NAME", r.output_name>>,
       <<"IFC_VERSION", r.version_key>> >>

\* "KEY:" + value raises TypeError unless value is a string: the lines
\* printed are those before the first operand that is not one
RECURSIVE HeaderLines(_)
HeaderLines(fields) ==
    IF fields = <<>> \/ ~IsStr(Head(fields)[2]) THEN <<>>
    ELSE <<Line(Head(fields)[1], Head(fields)[2].s)>>
         \o HeaderLines(Tail(fields))

EmitHeader(e) ==
    /\ run[e].pc = "header"
    /\ LET r      == run[e]
           fields == HeaderFields(r)
           lines  == <<Line("EXPORT_START", <<>>)>> \o HeaderLines(fields)
           r2     == [r EXCEPT !.out = @ \o lines]
       IN  IF Len(lines) = 1 + Len(fields)
           THEN Set(e, [r2 EXCEPT !.pc = "export"])
           ELSE Set(e, Crash(r2, "TypeError"))

----------------------------------------------------------------------------
(* export_ifc.py lines 117-121 and 132, rbp_export_ifc.py lines 92-96, 107 *)

\* doc.Export(output_dir, output_name, options) as the host sees it
ExportCall(r) ==
    [dir |-> r.output_dir.s, name |-> r.output_name.s, options |-> r.options]

\* the with block ends: the transaction is disposed and the document keeps
\* what the transaction's final status persists
WithExit(r, working) ==
    LET status == Dispose(r.txn)
    IN  [r EXCEPT !.pc = "report", !.txn = status,
                  !.txnLog = Append(@, "Dispose"),
                  !.persisted = Persist(status, @, working)]

\* t.Start() raises: the export is not attempted
StartRaises(r) ==
    WithExit([r EXCEPT !.txn = "NotStarted", !.txnLog = <<"Start">>,
                       !.caught = Str(StartFault)],
             r.persisted)

Started(r) ==
    [r EXCEPT !.txn = "Started", !.txnLog = <<"Start", "Export">>,
              !.exported = Append(@, ExportCall(r))]

\* doc.Export raises: t.RollBack() is skipped
ExportRaises(r, working) ==
    WithExit([Started(r) EXCEPT !.caught = Str(ExportFault)], working)

\* doc.Export returns b and t.RollBack() succeeds
ExportReturns(r, b, working) ==
    WithExit([Started(r) EXCEPT !.result = Bool(b), !.txn = RollBack(@),
                                !.txnLog = Append(@, "RollBack")],
             working)

\* doc.Export returns b and t.RollBack() raises
RollBackRaises(r, b, working) ==
    WithExit([Started(r) EXCEPT !.result = Bool(b),
                                !.txnLog = Append(@, "RollBack"),
                                !.caught = Str(RollBackFault)],
             working)

\* what the export leaves of the in-memory document inside the transaction
Workings == {"original", "modified"}

RunExport(e) ==
    /\ run[e].pc = "export"
    /\ \/ Set(e, StartRaises(run[e]))
       \/ \E working \in Workings :
             \/ Set(e, ExportRaises(run[e], working))
             \/ \E b \in BOOLEAN :
                   \/ Set(e, ExportReturns(run[e], b, working))
                   \/ Set(e, RollBackRaises(run[e], b, working))

----------------------------------------------------------------------------
(* export_ifc.py lines 123-134, rbp_export_ifc.py lines 98-109 *)

\* the lines of the try body after the with block
OutcomeLines(result, full_output) ==
    IF Truthy(result)
    THEN <<Line("EXPORT_RESULT", <<"SUCCESS">>),
           Line("OUTPUT_PATH", full_output)>>
    ELSE <<Line("EXPORT_RESULT", <<"FAILED">>),
           Line("ERROR", FailedReason)>>

\* the except branch
ErrorLines(ex) ==
    <<Line("EXPORT_RESULT", <<"ERROR">>), Line("ERROR", ex.s)>>

Report(e) ==
    /\ run[e].pc = "report"
    /\ LET r == run[e]
           full_output == Join(r.output_dir.s, r.output_name.s)
           lines == IF r.caught # None THEN ErrorLines(r.caught)
                    ELSE OutcomeLines(r.result, full_output)
       IN  Set(e, [r EXCEPT !.pc = "done", !.out = @ \o lines])

----------------------------------------------------------------------------

Next ==
    \E e \in Entries :
        \/ ParseArgs(e)
        \/ DocInputPath(e)
        \/ ReadParams(e)
        \/ VersionMapping(e)
        \/ ExportOptions(e)
        \/ OutputPaths(e)
        \/ EmitHeader(e)
        \/ RunExport(e)
        \/ Report(e)

Spec == Init /\ [][Next]_vars

SpecBoth == InitBoth /\ [][Next]_vars

----------------------------------------------------------------------------
(* Vocabulary of the properties *)

Finished(r) == r.pc \in {"done", "crashed"}

\* the names bound by lines 76-105 hold their values
OptionsBuilt(r) ==
    r.pc \in {"paths", "header", "export", "report", "done"}
    \/ (r.pc = "crashed" /\ r.exc = "TypeError")

PathsResolved(r) ==
    r.pc \in {"header", "export", "report", "done"}
    \/ (r.pc = "crashed" /\ r.exc = "TypeError")

ParamsLoaded(r) == r.pc \notin {"off", "args", "params"}

HasLine(out, tag) == \E i \in 1..Len(out) : out[i].tag = tag

CountLines(out, tag) == Cardinality({i \in 1..Len(out) : out[i].tag = tag})

StripWarn(out) ==
    IF out # <<>> /\ out[1].tag = "WARN" THEN Tail(out) ELSE out

HeaderTags ==
    <<"EXPORT_START", "INPUT_PATH", "OUTPUT_DIR", "OUTPUT_NAME",
      "IFC_VERSION", "EXPORT_RESULT">>

\* the status-line sequence of section 6 of the specification
WellFormed(l) ==
    /\ Len(l) = 7
    /\ \A i \in 1..6 : l[i].tag = HeaderTags[i]
    /\ \/ l[6].text = <<"SUCCESS">> /\ l[7].tag = "OUTPUT_PATH"
       \/ l[6].text \in {<<"FAILED">>, <<"ERROR">>} /\ l[7].tag = "ERROR"

\* the last two lines are one terminal status sequence
Terminal(out) ==
    /\ CountLines(out, "EXPORT_RESULT") = 1
    /\ Len(out) >= 2
    /\ out[Len(out) - 1].tag = "EXPORT_RESULT"
    /\ out[Len(out)].tag \in {"OUTPUT_PATH", "ERROR"}

\* the positional (non-flag) arguments of the interactive invocation
Positionals(e) ==
    IF e = "pyrevit" THEN SelectSeq(argv, LAMBDA a : ~IsFlag(a)) ELSE <<>>

\* the input path: the first positional argument, else the document's path
InputPathOf(e) ==
    IF Len(Positionals(e)) >= 1 THEN Positionals(e)[1] ELSE docPath

\* the JSON object the sidecar file gave the run, empty when none was read
SidecarOf(e) ==
    IF run[e].reads # <<>> /\ fs.content.t = "dict"
    THEN fs.content.d
    ELSE EmptyDict.d

\* the version key that names an IFCVersion member
KeyOfVersion(v) == IF v = "IFC2x3CV2" THEN <<"IFC2x3">> ELSE <<"IFC4">>

FixedOptions ==
    << <<"ExportInternalRevitPropertySets", "true">>,
       <<"ExportIFCCommonPropertySets", "true">>,
       <<"SitePlacement", "0">> >>

----------------------------------------------------------------------------
(* Properties *)

\* C1: every invocation that emits status lines emits, after an optional
\* leading WARN line, exactly EXPORT_START, INPUT_PATH, OUTPUT_DIR,
\* OUTPUT_NAME, IFC_VERSION, one EXPORT_RESULT, then OUTPUT_PATH iff the
\* result is SUCCESS or ERROR iff it is FAILED or ERROR, and nothing else.
C1_StatusSequenceWellFormed ==
    \A e \in Entries :
        (Finished(run[e]) /\ StripWarn(run[e].out) # <<>>)
            => WellFormed(StripWarn(run[e].out))

\* C2: no exception escapes the script, whatever the sidecar holds, and a
\* finished run has emitted exactly one terminal status sequence.
C2_NothingEscapes ==
    \A e \in Entries :
        /\ run[e].pc # "crashed"
        /\ Finished(run[e]) => Terminal(run[e].out)

\* C3: on every exit path of the export step the transaction is never
\* committed and is rolled back before EXPORT_RESULT is emitted, and the
\* document's persisted state stays what it was before the invocation.
C3_TransactionDiscarded ==
    \A e \in Entries :
        /\ run[e].txn # "Committed"
        /\ run[e].persisted = "original"
        /\ (run[e].pc = "report" \/ HasLine(run[e].out, "EXPORT_RESULT"))
              => /\ run[e].txn \in {"RolledBack", "NotStarted"}
                 /\ run[e].exported # <<>> => run[e].txn = "RolledBack"

\* the export raised inside the transaction and the outcome was reported
C3_Witness ==
    \E e \in Entries :
        /\ run[e].pc = "done"
        /\ run[e].caught = Str(ExportFault)
        /\ run[e].txn = "RolledBack"

\* C4: an explicit output path argument gives both outputDir and outputName,
\* whatever the sidecar holds; without one, each is the sidecar's value when
\* its key is present and otherwise the input path's directory, respectively
\* the input path's base name with its extension replaced by ".ifc".
C4_OutputPrecedence ==
    \A e \in Entries :
        PathsResolved(run[e]) =>
            LET pos == Positionals(e)
                d   == SidecarOf(e)
                inp == InputPathOf(e)
            IN  IF Len(pos) >= 2
                THEN /\ run[e].output_dir = Str(DirName(pos[2]))
                     /\ run[e].output_name = Str(BaseName(pos[2]))
                ELSE /\ run[e].output_dir =
                          IF "outputDir" \in DOMAIN d THEN d["outputDir"]
                          ELSE Str(DirName(inp))
                     /\ run[e].output_name =
                          IF "outputName" \in DOMAIN d THEN d["outputName"]
                          ELSE Str(SplitExt(BaseName(inp))[1] \o IfcExt)

\* an explicit output path competes with a sidecar outputDir
C4_Witness ==
    /\ run["pyrevit"].pc = "done"
    /\ Len(Positionals("pyrevit")) >= 2
    /\ "outputDir" \in DOMAIN SidecarOf("pyrevit")
    /\ run["pyrevit"].output_dir = Str(<<"out">>)

\* C5: the host export call alone decides the outcome: a truthy return is
\* reported SUCCESS with OUTPUT_PATH = join(outputDir, outputName), a falsy
\* return FAILED with the fixed reason, a raised error ERROR with its message.
C5_OutcomeFromExportAlone ==
    \A e \in Entries :
        (run[e].pc = "done" /\ run[e].exported # <<>>) =>
            LET r    == run[e]
                last == SubSeq(r.out, Len(r.out) - 1, Len(r.out))
            IN  IF r.result = None
                THEN last = <<Line("EXPORT_RESULT", <<"ERROR">>),
                              Line("ERROR", ExportFault)>>
                ELSE IF r.result.b
                THEN last = <<Line("EXPORT_RESULT", <<"SUCCESS">>),
                              Line("OUTPUT_PATH",
                                   Join(r.output_dir.s, r.output_name.s))>>
                ELSE last = <<Line("EXPORT_RESULT", <<"FAILED">>),
                              Line("ERROR", FailedReason)>>

\* C6 (state part): for an input path that names a file, a missing sidecar
\* gives the empty parameter set and no WARN line; an unparsable one gives
\* exactly one WARN line, ahead of EXPORT_START, and the empty parameter
\* set, and the run goes on to the export step (doc.Export is called unless
\* t.Start() raised); the sidecar is opened at most once.
C6_SidecarState ==
    \A e \in Entries :
        LET r    == run[e]
            path == ParamsPath(Str(InputPathOf(e)))
        IN  (ParamsLoaded(r) /\ InputPathOf(e) # <<>>) =>
                /\ Len(r.reads) <= 1
                /\ ~Exists(path) =>
                      r.params = EmptyDict /\ ~HasLine(r.out, "WARN")
                /\ (Exists(path) /\ fs.content = Malformed) =>
                      /\ r.params = EmptyDict
                      /\ r.reads = <<path>>
                      /\ CountLines(r.out, "WARN") = 1
                      /\ r.out[1].tag = "WARN"
                      /\ r.pc # "crashed"
                      /\ r.pc = "done" =>
                            r.exported # <<>> \/ r.caught = Str(StartFault)

\* C6 (step part): once loaded, the parameter set is neither re-read nor
\* modified.
C6_SidecarStep ==
    \A e \in Entries :
        ParamsLoaded(run[e]) =>
            /\ run'[e].params = run[e].params
            /\ run'[e].reads = run[e].reads

C7_VersionLineIsResolvedKey ==
    \A e \in Entries :
        \A i \in 1..Len(run[e].out) :
            run[e].out[i].tag = "IFC_VERSION" =>
                run[e].out[i].text = KeyOfVersion(run[e].options.FileVersion)

\* C8: ifcVersion resolution is total over strings: "IFC2x3" selects the
\* legacy version, "IFC4", an absent key and any other string select IFC4;
\* a string never makes the version mapping or the IFC_VERSION line fail,
\* and when outputDir and outputName are strings too the export step is
\* reached (doc.Export is called unless t.Start() raised).
C8_VersionResolutionTotal ==
    \A e \in Entries :
        LET r == run[e]
            d == SidecarOf(e)
            isString == "ifcVersion" \in DOMAIN d => IsStr(d["ifcVersion"])
        IN  (r.pc \notin {"off", "args", "params", "version"}
             /\ r.params.t = "dict" /\ isString) =>
                /\ r.ifc_version =
                      IF "ifcVersion" \in DOMAIN d
                         /\ d["ifcVersion"] = Str(<<"IFC2x3">>)
                      THEN "IFC2x3CV2" ELSE "IFC4"
                /\ OptionsBuilt(r) => r.options.FileVersion = r.ifc_version
                /\ (r.pc = "crashed") =>
                      ~(IsStr(r.output_dir) /\ IsStr(r.output_name))
                /\ (r.pc = "done") =>
                      r.exported # <<>> \/ r.caught = Str(StartFault)

\* an unknown version string went through to the export as IFC4
C8_Witness ==
    \E e \in Entries :
        /\ run[e].pc = "done"
        /\ run[e].version_key = Str(<<"IFC5">>)
        /\ run[e].exported # <<>>
        /\ run[e].exported[1].options.FileVersion = "IFC4"

\* C9: each option depends on its own sidecar field alone and takes the
\* documented default when that field is absent (IFC4, false, true, input
\* directory, input base name + ".ifc"); the three fixed options are added
\* on every invocation whatever the sidecar holds; the host is handed
\* exactly these.
C9_OptionsFromRecognizedFields ==
    \A e \in Entries :
        LET r   == run[e]
            d   == SidecarOf(e)
            inp == InputPathOf(e)
        IN  /\ OptionsBuilt(r) =>
                /\ r.options.FileVersion =
                      IF "ifcVersion" \in DOMAIN d
                      THEN (IF d["ifcVersion"] = Str(<<"IFC2x3">>)
                            THEN "IFC2x3CV2" ELSE "IFC4")
                      ELSE "IFC4"
                /\ r.options.WallAndColumnSplitting =
                      IF "wallSplitting" \in DOMAIN d
                      THEN d["wallSplitting"] ELSE Bool(FALSE)
                /\ r.options.ExportBaseQuantities =
                      IF "exportBaseQuantities" \in DOMAIN d
                      THEN d["exportBaseQuantities"] ELSE Bool(TRUE)
                /\ r.options.added = FixedOptions
            /\ (PathsResolved(r) /\ Len(Positionals(e)) < 2) =>
                /\ "outputDir" \notin DOMAIN d =>
                      r.output_dir = Str(DirName(inp))
                /\ "outputName" \notin DOMAIN d =>
                      r.output_name = Str(SplitExt(BaseName(inp))[1] \o IfcExt)
            /\ \A i \in 1..Len(r.exported) :
                  r.exported[i] = [dir |-> r.output_dir.s,
                                   name |-> r.output_name.s,
                                   options |-> r.options]

\* a sidecar with an unrecognized key and one recognized field was exported
C9_Witness ==
    \E e \in Entries :
        /\ run[e].pc = "done"
        /\ run[e].exported # <<>>
        /\ DOMAIN SidecarOf(e) = {"SitePlacement", "wallSplitting"}
        /\ run[e].options.ExportBaseQuantities = Bool(TRUE)

\* the host answered both runs alike, where both reached the host
SameHostBehaviour(a, b) ==
    (a.txnLog # <<>> /\ b.txnLog # <<>>) =>
        /\ a.txnLog = b.txnLog
        /\ a.result = b.result
        /\ a.caught = b.caught

\* C10: without positional arguments the two entry points, run to
\* completion on the same document path, sidecar and host behaviour, read
\* the same sidecar file, hand the host the same export call and emit the
\* same status lines.
C10_EntryPointsAgree ==
    LET a == run["pyrevit"]
        b == run["rbp"]
    IN  (a.pc = "done" /\ b.pc = "done" /\ SameHostBehaviour(a, b)) =>
            /\ a.reads = b.reads
            /\ a.exported = b.exported
            /\ a.out = b.out

====
